---- MODULE Spec2Model ----
(***************************************************************************)
(* rocket_csrf_token: the session secret cookie, the CsrfToken request     *)
(* guard and the authenticity token (src/src/lib.rs).                      *)
(*                                                                         *)
(* Strings of the base64 alphabet are sequences of symbol codes: 0..63 is  *)
(* the index of a symbol in the standard alphabet, PadChar is '=', and     *)
(* BadChar is a symbol outside the alphabet.  Bytes are 0..255.            *)
(***************************************************************************)
EXTENDS Integers, Sequences, FiniteSets, TLC

(***************************************************************************)
(* Bounds of the model.                                                    *)
(***************************************************************************)
MaxRequests == 2        \* requests one client sends, one after the other
MaxByteSample == 1      \* the generator draws bytes from MaxByteSample + 1 values
MaxSalt == 2            \* the hash primitive draws one of MaxSalt salts
MaxClock == 1           \* the clock advances at most MaxClock days
MaxBuilderCalls == 3    \* builder calls applied before the fairing is built

(***************************************************************************)
(* Constants of the program and of the libraries it calls.                 *)
(***************************************************************************)
BCRYPT_COST == 8        \* lib.rs:146
BcryptMinCost == 4      \* bcrypt: MIN_COST
BcryptMaxCost == 31     \* bcrypt: MAX_COST
BcryptMaxLen == 72      \* bcrypt: only the first 72 bytes of the key are used
PrivateDefaultDays == 7 \* rocket: a private cookie without expiration gets one week
PadChar == 64
BadChar == 65
NulByte == 256          \* the terminator bcrypt appends to the key

HEADER_NAME == "X-CSRF-Token"

ReqIds == 1 .. MaxRequests

(***************************************************************************)
(* base64::engine::general_purpose::STANDARD                               *)
(***************************************************************************)
\* encode: every group of three bytes gives four symbols; a last group of
\* one or two bytes gives two or three symbols and is padded to four.
Base64Encode(b) ==
    LET n == Len(b)
        byte(i) == IF i <= n THEN b[i] ELSE 0
    IN  [j \in 1 .. 4 * ((n + 2) \div 3) |->
            LET g == 3 * ((j - 1) \div 4)
                k == (j - 1) % 4
            IN  IF k = 0 THEN byte(g + 1) \div 4
                ELSE IF k = 1 THEN (byte(g + 1) % 4) * 16 + (byte(g + 2) \div 16)
                ELSE IF k = 2 THEN
                    IF g + 2 > n THEN PadChar
                    ELSE (byte(g + 2) % 16) * 4 + (byte(g + 3) \div 64)
                ELSE IF g + 3 > n THEN PadChar ELSE byte(g + 3) % 64]

IsSextet(c) == c \in 0 .. 63

\* The number of padding symbols at the end of the last group of four.
Padding(s) ==
    IF Len(s) = 0 \/ s[Len(s)] # PadChar THEN 0
    ELSE IF Len(s) = 1 \/ s[Len(s) - 1] # PadChar THEN 1
    ELSE 2

\* The unused bits of the last symbol before the padding are zero.
TrailingBitsZero(s) ==
    IF Padding(s) = 1 THEN s[Len(s) - 1] % 4 = 0
    ELSE IF Padding(s) = 2 THEN s[Len(s) - 2] % 16 = 0
    ELSE TRUE

\* decode: the length is a multiple of four, padding is canonical (present,
\* at most two symbols, only at the end), every other symbol is of the
\* alphabet and the trailing bits are zero; otherwise it is an error.
Base64Decode(s) ==
    LET n == Len(s)
        pad == Padding(s)
    IN  IF /\ n % 4 = 0
           /\ \A i \in 1 .. n - pad : IsSextet(s[i])
           /\ TrailingBitsZero(s)
        THEN [ok |-> TRUE,
              bytes |-> [j \in 1 .. 3 * (n \div 4) - pad |->
                            LET g == 4 * ((j - 1) \div 3)
                                k == (j - 1) % 3
                            IN  IF k = 0 THEN s[g + 1] * 4 + (s[g + 2] \div 16)
                                ELSE IF k = 1 THEN (s[g + 2] % 16) * 16 + (s[g + 3] \div 4)
                                ELSE (s[g + 3] % 4) * 64 + s[g + 4]]]
        ELSE [ok |-> FALSE, bytes |-> << >>]

(***************************************************************************)
(* bcrypt::hash and bcrypt::verify.  A hash string is a record: wf says    *)
(* whether the string has the form of a bcrypt hash ($2b$cost$salt digest),*)
(* text holds the symbols of a string that has not.  The digest is ideal:  *)
(* two digests are equal exactly when cost, salt and the key that bcrypt   *)
(* uses are equal.                                                         *)
(***************************************************************************)
NoDigest == [cost |-> 0, salt |-> 0, key |-> << >>]

Salts == 1 .. MaxSalt
RandFailure == 0

\* bcrypt::_hash_password: the key is the password followed by a NUL byte,
\* cut to its first 72 bytes.
TruncatedKey(password) ==
    LET v == Append(password, NulByte)
    IN  IF Len(v) > BcryptMaxLen THEN SubSeq(v, 1, BcryptMaxLen) ELSE v

hash_password(password, cost, salt) ==
    IF cost < BcryptMinCost \/ cost > BcryptMaxCost THEN
        [ok |-> FALSE, err |-> "CostNotAllowed", digest |-> NoDigest]
    ELSE
        [ok |-> TRUE, err |-> "",
         digest |-> [cost |-> cost, salt |-> salt, key |-> TruncatedKey(password)]]

format_hash(cost, salt, digest) ==
    [wf |-> TRUE, cost |-> cost, salt |-> salt, digest |-> digest, text |-> << >>]

MalformedHash(text) ==
    [wf |-> FALSE, cost |-> 0, salt |-> 0, digest |-> NoDigest, text |-> text]

\* The result of a call that was not made.
NoResult == [ok |-> FALSE, err |-> "", value |-> MalformedHash(<< >>)]

\* bcrypt::hash(password, cost): the salt is drawn from the generator of the
\* system, which may fail (RandFailure stands for no salt), then the
\* password is hashed with it.
bcrypt_hash(password, cost, salt) ==
    IF salt = RandFailure THEN [ok |-> FALSE, err |-> "Rand", value |-> MalformedHash(<< >>)]
    ELSE LET h == hash_password(password, cost, salt)
         IN  IF h.ok THEN [ok |-> TRUE, err |-> "",
                           value |-> format_hash(cost, salt, h.digest)]
             ELSE [ok |-> FALSE, err |-> h.err, value |-> MalformedHash(<< >>)]

\* bcrypt::verify(password, hash): Ok(bool) or Err.
bcrypt_verify(password, hash) ==
    IF ~hash.wf THEN [ok |-> FALSE, err |-> "InvalidHash", value |-> FALSE]
    ELSE LET generated == hash_password(password, hash.cost, hash.salt)
         IN  IF ~generated.ok THEN [ok |-> FALSE, err |-> generated.err, value |-> FALSE]
             ELSE [ok |-> TRUE, err |-> "", value |-> generated.digest = hash.digest]

(***************************************************************************)
(* CsrfConfig (lib.rs:155-212).  A duration is a number of days.           *)
(***************************************************************************)
None == [some |-> FALSE, d |-> 0]
Some(d) == [some |-> TRUE, d |-> d]

Lifespans == {None, Some(1)}
CookieNames == {"csrf_token", "foobar"}
CookieLens == {0, 1, 32, 64}

CsrfConfig_default ==
    [lifespan |-> Some(1), cookie_name |-> "csrf_token", cookie_len |-> 32]

with_lifetime(self, time) == [self EXCEPT !.lifespan = time]

with_cookie_name(self, name) == [self EXCEPT !.cookie_name = name]

\* Variant of lib.rs:208-211: the other fields are taken from the default.
with_cookie_len_from_default(self, length) ==
    [CsrfConfig_default EXCEPT !.cookie_len = length]

with_cookie_len(self, length) == [self EXCEPT !.cookie_len = length]

\* Rocket's managed state: the CsrfConfig, when one is registered.
NoConfig == [present |-> FALSE, config |-> CsrfConfig_default]
Managed(c) == [present |-> TRUE, config |-> c]

(***************************************************************************)
(* CsrfToken::authenticity_token and CsrfToken::verify (lib.rs:260-288).   *)
(* A CsrfToken is the string it wraps.                                     *)
(***************************************************************************)
\* Variant of lib.rs:262: the decoded secret is hashed, not the string.
authenticity_token_of_decoded(self, salt) ==
    bcrypt_hash(Base64Decode(self).bytes, BCRYPT_COST, salt)

\* Variant of lib.rs:261-265: an error of bcrypt::hash is not returned, the
\* caller gets Ok with an empty string.
authenticity_token_error_hidden(self, salt) ==
    LET h == bcrypt_hash(self, BCRYPT_COST, salt)
    IN  IF h.ok THEN h ELSE [ok |-> TRUE, err |-> "", value |-> MalformedHash(<< >>)]

authenticity_token(self, salt) == bcrypt_hash(self, BCRYPT_COST, salt)

unwrap_or(result, default) == IF result.ok THEN result.value ELSE default

\* Variant of lib.rs:281: an error of bcrypt::verify counts as a match.
CsrfToken_verify_error_accepted(self, form_authenticity_token) ==
    IF unwrap_or(bcrypt_verify(self, form_authenticity_token), TRUE) THEN
        [ok |-> TRUE, log |-> << "CSRF token verification succeeded." >>]
    ELSE
        [ok |-> FALSE, log |-> << >>]

\* Variant of lib.rs:281: the submitted token is compared with a token
\* minted anew, not verified with the salt it carries.
CsrfToken_verify_by_rehash(self, form_authenticity_token) ==
    IF form_authenticity_token = bcrypt_hash(self, BCRYPT_COST, 1).value THEN
        [ok |-> TRUE, log |-> << "CSRF token verification succeeded." >>]
    ELSE
        [ok |-> FALSE, log |-> << >>]

CsrfToken_verify(self, form_authenticity_token) ==
    IF unwrap_or(bcrypt_verify(self, form_authenticity_token), FALSE) THEN
        [ok |-> TRUE, log |-> << "CSRF token verification succeeded." >>]
    ELSE
        [ok |-> FALSE, log |-> << >>]

(***************************************************************************)
(* Cookies and the cookie jar of a request (rocket::http::CookieJar).      *)
(* The jar holds the cookies the request arrived with (original) and the   *)
(* cookies added while the request is handled (pending); the pending ones  *)
(* become the Set-Cookie headers of the response.  Private cookies are     *)
(* held by their decrypted value.                                          *)
(***************************************************************************)
ExpUnset == [kind |-> "unset", at |-> 0]
ExpSession == [kind |-> "session", at |-> 0]
ExpAt(t) == [kind |-> "datetime", at |-> t]

Absent == [present |-> FALSE, value |-> << >>, expires |-> ExpUnset]
Stored(value, expires) == [present |-> TRUE, value |-> value, expires |-> expires]

EmptyStore == [n \in CookieNames |-> Absent]

\* Cookie::build((name, value)): no path, no expiration yet.
Cookie_build(name, value) ==
    [name |-> name, value |-> value, path |-> "unset", expires |-> ExpUnset]

Cookie_path(cookie, path) == [cookie EXCEPT !.path = path]

\* CookieBuilder::expires(Some(datetime)) and CookieBuilder::expires(None).
Cookie_expires(cookie, expiration) ==
    [cookie EXCEPT !.expires =
        IF expiration.some THEN ExpAt(expiration.d) ELSE ExpSession]

\* CookieJar::add_private: a private cookie without path or expiration gets
\* the defaults of the jar, then it is queued among the pending cookies.
set_private_defaults(cookie, now_utc) ==
    [cookie EXCEPT
        !.path = IF @ = "unset" THEN "/" ELSE @,
        !.expires = IF @.kind = "unset" THEN ExpAt(now_utc + PrivateDefaultDays) ELSE @]

add_private(pending, cookie, now_utc) ==
    Append(pending, set_private_defaults(cookie, now_utc))

\* CookieJar::get_private reads the cookies the request arrived with; the
\* pending cookies are not visible through it.
get_private(original, name) ==
    IF original[name].present THEN [some |-> TRUE, value |-> original[name].value]
    ELSE [some |-> FALSE, value |-> << >>]

(***************************************************************************)
(* RequestCsrf (lib.rs:545-587).                                           *)
(***************************************************************************)
NoBytes == [some |-> FALSE, raw |-> << >>]

\* Variant of lib.rs:581: a value that does not decode is used as it is.
csrf_token_from_session_undecoded(original, config) ==
    LET cookie == get_private(original, config.cookie_name)
    IN  IF cookie.some THEN
            LET decoded == Base64Decode(cookie.value)
            IN  [some |-> TRUE, raw |-> IF decoded.ok THEN decoded.bytes ELSE cookie.value]
        ELSE NoBytes

csrf_token_from_session(original, config) ==
    LET cookie == get_private(original, config.cookie_name)
    IN  IF cookie.some THEN
            LET decoded == Base64Decode(cookie.value)
            IN  IF decoded.ok THEN [some |-> TRUE, raw |-> decoded.bytes] ELSE NoBytes
        ELSE NoBytes

\* Variants of the length check, each a slip of lib.rs:557.
valid_csrf_token_no_length_check(original, config) ==
    csrf_token_from_session(original, config)

valid_csrf_token_exact_length(original, config) ==
    LET session == csrf_token_from_session(original, config)
    IN  IF session.some /\ Len(session.raw) = config.cookie_len THEN session ELSE NoBytes

valid_csrf_token_strictly_longer(original, config) ==
    LET session == csrf_token_from_session(original, config)
    IN  IF session.some /\ Len(session.raw) > config.cookie_len THEN session ELSE NoBytes

valid_csrf_token_from_session(original, config) ==
    LET session == csrf_token_from_session(original, config)
    IN  IF session.some /\ Len(session.raw) >= config.cookie_len THEN session ELSE NoBytes

(***************************************************************************)
(* The random generator: rand::thread_rng().sample_iter(Standard).take(n). *)
(* Every byte sequence of length n is a possible outcome; the model draws  *)
(* from the sequences that are zero but for a sample byte in the first or  *)
(* in the last place.                                                      *)
(***************************************************************************)
SampleBytes == { (k * 151) % 256 : k \in 0 .. MaxByteSample }

RandomBytes(n) ==
    { [i \in 1 .. n |-> IF i = p THEN b ELSE 0] : p \in {1, n}, b \in SampleBytes }

(***************************************************************************)
(* State.                                                                  *)
(***************************************************************************)
VARIABLES
    phase,      \* "build" while the configuration is built, then "running"
    builder,    \* the CsrfConfig under construction and the builder calls made so far
    managed,    \* Rocket's managed state
    now,        \* OffsetDateTime::now_utc(), in days
    client,     \* the cookies the client holds
    delivered,  \* the authenticity tokens handed out in responses
    req         \* the requests, by id

vars == << phase, builder, managed, now, client, delivered, req >>

NoHeader == [present |-> FALSE, value |-> MalformedHash(<< >>)]
Header(v) == [present |-> TRUE, value |-> v]

NoOutcome == [kind |-> "none", status |-> 0, token |-> << >>]
Success(token) == [kind |-> "Success", status |-> 0, token |-> token]
Error(status) == [kind |-> "Error", status |-> status, token |-> << >>]
Forward(status) == [kind |-> "Forward", status |-> status, token |-> << >>]
Panic == [kind |-> "Panic", status |-> 500, token |-> << >>]

Forbidden == 403

(***************************************************************************)
(* VerificationFailure (lib.rs:526-542): its Debug text and the status of  *)
(* the response it gives as a Responder.                                   *)
(***************************************************************************)
VerificationFailure == [debug |-> "CSRF token verification failed!", status |-> Forbidden]
NoFailure == [debug |-> "", status |-> 0]

IdleRequest ==
    [pc |-> "idle",
     original |-> EmptyStore,       \* the cookies the request arrived with
     pending |-> << >>,             \* the cookies added to the jar
     header |-> NoHeader,           \* the X-CSRF-Token header
     cache |-> NoHeader,            \* request-local cache: a CsrfToken, if any
     outcome |-> NoOutcome,         \* the outcome of the CsrfToken guard
     route |-> "none",              \* what the handler did with the token
     form |-> MalformedHash(<< >>), \* the token submitted to the handler
     body |-> NoResult,             \* the result of authenticity_token
     origin |-> NoBytes,            \* the secret string that token was minted from
     verified |-> FALSE,            \* the result of verify
     generated |-> NoBytes,         \* the secret drawn from the generator
     log |-> << >>]

\* A call of a builder method with its argument, and the builder before any
\* call: CsrfConfig::default().
NoCall == [method |-> "none", time |-> None, name |-> "", length |-> 0]
NewBuilder == [config |-> CsrfConfig_default, calls |-> 0, history |-> << >>]

Init ==
    /\ phase = "build"
    /\ builder = NewBuilder
    /\ managed = NoConfig
    /\ now = 0
    /\ client = EmptyStore
    /\ delivered = {}
    /\ req = [r \in ReqIds |-> IdleRequest]

(***************************************************************************)
(* Building the configuration and igniting (lib.rs:187-211, 314-316).      *)
(***************************************************************************)
WithLifetime ==
    /\ phase = "build" /\ builder.calls < MaxBuilderCalls
    /\ \E time \in Lifespans :
         builder' = [config |-> with_lifetime(builder.config, time),
                     calls |-> builder.calls + 1,
                     history |-> Append(builder.history,
                                        [NoCall EXCEPT !.method = "with_lifetime",
                                                       !.time = time])]
    /\ UNCHANGED << phase, managed, now, client, delivered, req >>

WithCookieName ==
    /\ phase = "build" /\ builder.calls < MaxBuilderCalls
    /\ \E name \in CookieNames :
         builder' = [config |-> with_cookie_name(builder.config, name),
                     calls |-> builder.calls + 1,
                     history |-> Append(builder.history,
                                        [NoCall EXCEPT !.method = "with_cookie_name",
                                                       !.name = name])]
    /\ UNCHANGED << phase, managed, now, client, delivered, req >>

WithCookieLen ==
    /\ phase = "build" /\ builder.calls < MaxBuilderCalls
    /\ \E length \in CookieLens :
         builder' = [config |-> with_cookie_len(builder.config, length),
                     calls |-> builder.calls + 1,
                     history |-> Append(builder.history,
                                        [NoCall EXCEPT !.method = "with_cookie_len",
                                                       !.length = length])]
    /\ UNCHANGED << phase, managed, now, client, delivered, req >>

\* Fairing::new(config) attached: on_ignite registers a clone of the config.
on_ignite(config) == Managed(config)

Ignite ==
    /\ phase = "build"
    /\ phase' = "running"
    /\ managed' = on_ignite(builder.config)
    /\ builder' = NewBuilder     \* the config is moved into the fairing
    /\ UNCHANGED << now, client, delivered, req >>

\* The application mounts its routes without the fairing's on_ignite having
\* run: no CsrfConfig is registered.
LaunchWithoutConfig ==
    /\ phase = "build"
    /\ phase' = "running"
    /\ managed' = NoConfig
    /\ builder' = NewBuilder
    /\ UNCHANGED << now, client, delivered, req >>

\* The clock counts days: it advances between requests, not while one is
\* being handled.
Tick ==
    /\ phase = "running"
    /\ \A r \in ReqIds : req[r].pc \in {"idle", "responded"}
    /\ now < MaxClock
    /\ now' = now + 1
    /\ UNCHANGED << phase, builder, managed, client, delivered, req >>

(***************************************************************************)
(* The requests of the client.                                             *)
(***************************************************************************)
ConfigInUse == IF managed.present THEN managed.config ELSE CsrfConfig_default

Corrupt(s) == [s EXCEPT ![1] = BadChar]
Clip(s) == SubSeq(s, 1, Len(s) - 1)
TrailingBits == << 0, 1, PadChar, PadChar >>

\* Values of a cookie the client may hold from earlier: secrets one byte
\* shorter than, as long as and one byte longer than cookie_len, and values
\* that are not base64.
InitialValues(n) ==
    { Base64Encode([i \in 1 .. m |-> 0]) : m \in {n - 1, n, n + 1} \cap Nat }
    \cup { Corrupt(Base64Encode([i \in 1 .. n + 1 |-> 0])),
           Clip(Base64Encode([i \in 1 .. n + 1 |-> 0])), TrailingBits }

InitialStores(config) ==
    {EmptyStore}
    \cup { [EmptyStore EXCEPT ![config.cookie_name] = Stored(v, ExpSession)] :
              v \in InitialValues(config.cookie_len) }
    \cup { [EmptyStore EXCEPT ![name] =
                Stored(Base64Encode([i \in 1 .. config.cookie_len |-> 0]), ExpSession)] :
              name \in CookieNames \ {config.cookie_name} }

Expired(entry, t) == entry.expires.kind = "datetime" /\ entry.expires.at <= t

\* The Cookie header: the cookies of the store that have not expired.
SentCookies(store, t) ==
    [n \in CookieNames |->
        IF store[n].present /\ ~Expired(store[n], t)
        THEN Stored(store[n].value, ExpUnset) ELSE Absent]

\* The X-CSRF-Token header: none, an authenticity token of the empty string,
\* an authenticity token of the cookie the request carries, or no hash at all.
HeaderInputs(original, config) ==
    {NoHeader, Header(bcrypt_hash(<< >>, BCRYPT_COST, 1).value)}
    \cup (IF original[config.cookie_name].present
          THEN {Header(bcrypt_hash(original[config.cookie_name].value, BCRYPT_COST, 1).value)}
          ELSE {Header(MalformedHash(<< BadChar >>))})

Arrive(r) ==
    /\ phase = "running"
    /\ req[r].pc = "idle"
    /\ IF r = 1 THEN TRUE ELSE req[r - 1].pc = "responded"
    /\ \E store \in (IF r = 1 THEN InitialStores(ConfigInUse) ELSE {client}) :
         /\ client' = store
         /\ \E h \in HeaderInputs(SentCookies(store, now), ConfigInUse) :
              req' = [req EXCEPT ![r] =
                        [IdleRequest EXCEPT !.pc = "arrived",
                                            !.original = SentCookies(store, now),
                                            !.header = h]]
    /\ UNCHANGED << phase, builder, managed, now, delivered >>

(***************************************************************************)
(* <CsrfToken as Fairing>::on_request (lib.rs:465-511).                    *)
(***************************************************************************)
ConfigMissing == "CSRF config is missing: (Status { code: 500 }, ())"

\* Request::local_cache: the first value stored for a type stays.
local_cache(cache, value) == IF cache.present THEN cache ELSE Header(value)

\* Variant of lib.rs:483-493: the TODOs are done, the request is failed with
\* status 403 when the header is missing or does not verify.
CsrfToken_on_request_enforcing(self, rq, mgd) ==
    IF mgd.present THEN
        IF rq.header.present THEN
            LET v == CsrfToken_verify(self, rq.header.value)
            IN  IF v.ok THEN
                    [rq EXCEPT !.log = @ \o v.log \o << "CsrfToken is successfully created" >>,
                               !.cache = local_cache(@, rq.header.value)]
                ELSE [rq EXCEPT !.log = Append(@, "CSRF token verification failed!"),
                                !.outcome = Error(Forbidden)]
        ELSE [rq EXCEPT !.log = Append(@, "Request lacks X-CSRF-Token"),
                        !.outcome = Error(Forbidden)]
    ELSE [rq EXCEPT !.log = Append(@, ConfigMissing)]

CsrfToken_on_request(self, rq, mgd) ==
    IF mgd.present THEN
        IF rq.header.present THEN
            LET v == CsrfToken_verify(self, rq.header.value)
            IN  IF v.ok THEN
                    [rq EXCEPT !.log = @ \o v.log \o << "CsrfToken is successfully created" >>,
                               !.cache = local_cache(@, rq.header.value)]
                ELSE [rq EXCEPT !.log = Append(@, "CSRF token verification failed!")]
        ELSE [rq EXCEPT !.log = Append(@, "Request lacks X-CSRF-Token")]
    ELSE [rq EXCEPT !.log = Append(@, ConfigMissing)]

(***************************************************************************)
(* Fairing::on_request (lib.rs:330-380).                                   *)
(***************************************************************************)
\* lib.rs:356-359
Expiration(lifespan, now_utc) ==
    IF lifespan.some THEN Some(now_utc + lifespan.d) ELSE None

\* Variant of lib.rs:363-367: expires is called only for Some(expiration).
SecretCookie_expires_if_some(config, encoded, now_utc) ==
    LET cookie_builder == Cookie_path(Cookie_build(config.cookie_name, encoded), "/")
        expires == Expiration(config.lifespan, now_utc)
    IN  IF expires.some THEN Cookie_expires(cookie_builder, expires) ELSE cookie_builder

\* Variant of lib.rs:361: the default cookie name is used, not the configured one.
SecretCookie_default_name(config, encoded, now_utc) ==
    Cookie_expires(Cookie_path(Cookie_build(CsrfConfig_default.cookie_name, encoded), "/"),
                   Expiration(config.lifespan, now_utc))

\* lib.rs:361-369
SecretCookie(config, encoded, now_utc) ==
    Cookie_expires(Cookie_path(Cookie_build(config.cookie_name, encoded), "/"),
                   Expiration(config.lifespan, now_utc))

\* Variant of lib.rs:351: the default length is taken, not the configured one.
GenerateValues_default_len(config) == RandomBytes(CsrfConfig_default.cookie_len)

\* lib.rs:349-352: take(config.cookie_len) bytes of the generator.
GenerateValues(config) == RandomBytes(config.cookie_len)

\* Variant of lib.rs:333-343: without a registered config the default one is
\* used and the step goes on.
Fairing_on_request_default_config(rq, mgd, values, now_utc) ==
    LET config == IF mgd.present THEN mgd.config ELSE CsrfConfig_default
    IN  IF valid_csrf_token_from_session(rq.original, config).some THEN rq
        ELSE
            LET encoded == Base64Encode(values)
                cookie == SecretCookie(config, encoded, now_utc)
                added == [rq EXCEPT !.pending = add_private(@, cookie, now_utc),
                                    !.generated = [some |-> TRUE, raw |-> values],
                                    !.log = Append(@, "CSRF cookie added successfully.")]
            IN  CsrfToken_on_request(<< >>, added, mgd)

\* Variant of lib.rs:373: the message shows the value of the cookie.
Fairing_on_request_logs_value(rq, mgd, values, now_utc) ==
    IF ~mgd.present THEN [rq EXCEPT !.log = Append(@, ConfigMissing)]
    ELSE IF valid_csrf_token_from_session(rq.original, mgd.config).some THEN rq
    ELSE
        LET encoded == Base64Encode(values)
            cookie == SecretCookie(mgd.config, encoded, now_utc)
            added == [rq EXCEPT !.pending = add_private(@, cookie, now_utc),
                                !.generated = [some |-> TRUE, raw |-> values],
                                !.log = Append(@, "CSRF cookie added: " \o ToString(encoded))]
        IN  CsrfToken_on_request(<< >>, added, mgd)

\* Variant of lib.rs:345-347: there is no early return, a secret is minted
\* on every request.
Fairing_on_request_always_mints(rq, mgd, values, now_utc) ==
    IF ~mgd.present THEN [rq EXCEPT !.log = Append(@, ConfigMissing)]
    ELSE
        LET encoded == Base64Encode(values)
            cookie == SecretCookie(mgd.config, encoded, now_utc)
            added == [rq EXCEPT !.pending = add_private(@, cookie, now_utc),
                                !.generated = [some |-> TRUE, raw |-> values],
                                !.log = Append(@, "CSRF cookie added successfully.")]
        IN  CsrfToken_on_request(<< >>, added, mgd)

Fairing_on_request(rq, mgd, values, now_utc) ==
    IF ~mgd.present THEN [rq EXCEPT !.log = Append(@, ConfigMissing)]
    ELSE IF valid_csrf_token_from_session(rq.original, mgd.config).some THEN rq
    ELSE
        LET encoded == Base64Encode(values)
            cookie == SecretCookie(mgd.config, encoded, now_utc)
            added == [rq EXCEPT !.pending = add_private(@, cookie, now_utc),
                                !.generated = [some |-> TRUE, raw |-> values],
                                !.log = Append(@, "CSRF cookie added successfully.")]
        IN  CsrfToken_on_request(<< >>, added, mgd)

OnRequest(r) ==
    /\ phase = "running"
    /\ req[r].pc = "arrived"
    /\ \E values \in GenerateValues(ConfigInUse) :
         req' = [req EXCEPT ![r] =
                   [Fairing_on_request(req[r], managed, values, now) EXCEPT !.pc = "fairing_done"]]
    /\ UNCHANGED << phase, builder, managed, now, client, delivered >>

(***************************************************************************)
(* <CsrfToken as FromRequest>::from_request (lib.rs:396-406).              *)
(***************************************************************************)
\* Variant of lib.rs:404: the request is forwarded, not failed.
from_request_forward(rq, mgd) ==
    IF ~mgd.present THEN Panic
    ELSE LET token == valid_csrf_token_from_session(rq.original, mgd.config)
         IN  IF token.some THEN Success(Base64Encode(token.raw))
             ELSE Forward(Forbidden)

\* Variant of lib.rs:401: the secret is encoded without padding.
from_request_unpadded(rq, mgd) ==
    IF ~mgd.present THEN Panic
    ELSE LET token == valid_csrf_token_from_session(rq.original, mgd.config)
         IN  IF token.some THEN Success(SelectSeq(Base64Encode(token.raw), IsSextet))
             ELSE Error(Forbidden)

from_request(rq, mgd) ==
    IF ~mgd.present THEN Panic      \* Outcome::unwrap on an Error outcome
    ELSE LET token == valid_csrf_token_from_session(rq.original, mgd.config)
         IN  IF token.some THEN Success(Base64Encode(token.raw))
             ELSE Error(Forbidden)

\* Variant of lib.rs:399: the secret is read from a store of the session
\* that the requests of the client share, not from the jar of the request.
Guard_shared_session(r) ==
    /\ phase = "running"
    /\ req[r].pc = "fairing_done"
    /\ req' = [req EXCEPT
                 ![r].outcome = from_request([req[r] EXCEPT
                                                 !.original = SentCookies(client, now)],
                                             managed),
                 ![r].pc = "guarded"]
    /\ UNCHANGED << phase, builder, managed, now, client, delivered >>

Guard(r) ==
    /\ phase = "running"
    /\ req[r].pc = "fairing_done"
    /\ req' = [req EXCEPT ![r].outcome = from_request(req[r], managed),
                          ![r].pc = "guarded"]
    /\ UNCHANGED << phase, builder, managed, now, client, delivered >>

(***************************************************************************)
(* The handlers of the example application (examples/minimal/src/main.rs): *)
(* `new` embeds an authenticity token in the page, `create` verifies the   *)
(* token submitted with the form.                                          *)
(***************************************************************************)
New(r) ==
    /\ phase = "running"
    /\ req[r].pc = "guarded" /\ req[r].outcome.kind = "Success"
    /\ \E salt \in Salts \cup {RandFailure} :
         req' = [req EXCEPT ![r].body = authenticity_token(req[r].outcome.token, salt),
                            ![r].route = "new",
                            ![r].pc = "handled"]
    /\ UNCHANGED << phase, builder, managed, now, client, delivered >>

\* What a form may submit: a token delivered to the client earlier, a token
\* minted in another session (from another secret of the configured
\* length), a string that is no hash, the empty string, or a hash string
\* whose cost bcrypt does not allow.
Minted(secret, salt) ==
    [origin |-> [some |-> TRUE, raw |-> secret],
     token |-> authenticity_token(secret, salt).value]

Submissions(config) ==
    delivered
    \cup { Minted(Base64Encode(b), 1) : b \in RandomBytes(config.cookie_len) }
    \cup { [origin |-> NoBytes, token |-> t] :
              t \in { MalformedHash(<< BadChar >>), MalformedHash(<< >>),
                      format_hash(BcryptMinCost - 1, 1, NoDigest) } }

Create(r) ==
    /\ phase = "running"
    /\ req[r].pc = "guarded" /\ req[r].outcome.kind = "Success"
    /\ \E sub \in Submissions(ConfigInUse) :
         LET v == CsrfToken_verify(req[r].outcome.token, sub.token)
         IN  req' = [req EXCEPT ![r].form = sub.token,
                                ![r].origin = sub.origin,
                                ![r].verified = v.ok,
                                ![r].log = @ \o v.log,
                                ![r].route = "create",
                                ![r].pc = "handled"]
    /\ UNCHANGED << phase, builder, managed, now, client, delivered >>

(***************************************************************************)
(* The response: the pending cookies are sent as Set-Cookie headers and the*)
(* client stores them.                                                     *)
(***************************************************************************)
RECURSIVE StoreCookies(_, _)
StoreCookies(store, pending) ==
    IF pending = << >> THEN store
    ELSE StoreCookies([store EXCEPT ![Head(pending).name] =
                          Stored(Head(pending).value, Head(pending).expires)],
                      Tail(pending))

Respond(r) ==
    /\ phase = "running"
    /\ req[r].pc \in {"fairing_done", "guarded", "handled"}
    /\ client' = StoreCookies(client, req[r].pending)
    /\ delivered' =
         IF req[r].route = "new" /\ req[r].body.ok
         THEN delivered \cup { [origin |-> [some |-> TRUE, raw |-> req[r].outcome.token],
                                token |-> req[r].body.value] }
         ELSE delivered
    /\ req' = [req EXCEPT ![r] = [IdleRequest EXCEPT !.pc = "responded"]]  \* the request is dropped
    /\ UNCHANGED << phase, builder, managed, now >>

Next ==
    \/ WithLifetime
    \/ WithCookieName
    \/ WithCookieLen
    \/ Ignite
    \/ LaunchWithoutConfig
    \/ Tick
    \/ \E r \in ReqIds : Arrive(r)
    \/ \E r \in ReqIds : OnRequest(r)
    \/ \E r \in ReqIds : Guard(r)
    \/ \E r \in ReqIds : New(r)
    \/ \E r \in ReqIds : Create(r)
    \/ \E r \in ReqIds : Respond(r)

Spec == Init /\ [][Next]_vars

(***************************************************************************)
(* The applications of the repository, already launched: the example      *)
(* (examples/minimal/src/main.rs:46) and the rockets of                    *)
(* tests/fairing_default.rs and tests/guard_configured.rs.                 *)
(***************************************************************************)
Applications ==
    { with_lifetime(CsrfConfig_default, None),
      CsrfConfig_default,
      with_lifetime(with_cookie_len(with_cookie_name(CsrfConfig_default, "foobar"), 64),
                    Some(3)) }

LaunchedInit ==
    /\ phase = "running"
    /\ builder = NewBuilder
    /\ managed \in { on_ignite(config) : config \in Applications }
    /\ now = 0
    /\ client = EmptyStore
    /\ delivered = {}
    /\ req = [r \in ReqIds |-> IdleRequest]

LaunchedNext ==
    \/ Tick
    \/ \E r \in ReqIds : Arrive(r)
    \/ \E r \in ReqIds : OnRequest(r)
    \/ \E r \in ReqIds : Guard(r)
    \/ \E r \in ReqIds : New(r)
    \/ \E r \in ReqIds : Create(r)
    \/ \E r \in ReqIds : Respond(r)

LaunchedSpec == LaunchedInit /\ [][LaunchedNext]_vars

(***************************************************************************)
(* A client that sends requests without waiting for the responses: Rocket  *)
(* handles the requests of a client as concurrent tasks, each hook and     *)
(* handler being a step.  The client holds no cookie at first, sends the   *)
(* cookies it holds when a request leaves, and stores the cookies of each  *)
(* response when it comes in.  The application is the example            *)
(* (examples/minimal/src/main.rs); the clock stands still: no cookie       *)
(* expires.                                                                *)
(***************************************************************************)
MaxInFlight == 2        \* requests of the client handled at the same time

ConcurrentIds == 1 .. MaxRequests + 1

InFlight == { r \in DOMAIN req : req[r].pc \notin {"idle", "responded"} }

ArriveConcurrently(r) ==
    /\ phase = "running"
    /\ req[r].pc = "idle"
    /\ IF r = 1 THEN TRUE ELSE req[r - 1].pc # "idle"
    /\ Cardinality(InFlight) < MaxInFlight
    /\ req' = [req EXCEPT ![r] =
                  [IdleRequest EXCEPT !.pc = "arrived",
                                      !.original = SentCookies(client, now)]]
    /\ UNCHANGED << phase, builder, managed, now, client, delivered >>

ConcurrentInit ==
    /\ phase = "running"
    /\ builder = NewBuilder
    /\ managed = on_ignite(with_lifetime(CsrfConfig_default, None))  \* main.rs:46
    /\ now = 0
    /\ client = EmptyStore
    /\ delivered = {}
    /\ req = [r \in ConcurrentIds |-> IdleRequest]

ConcurrentNext ==
    \/ \E r \in ConcurrentIds : ArriveConcurrently(r)
    \/ \E r \in ConcurrentIds : OnRequest(r)
    \/ \E r \in ConcurrentIds : Guard(r)
    \/ \E r \in ConcurrentIds : New(r)
    \/ \E r \in ConcurrentIds : Create(r)
    \/ \E r \in ConcurrentIds : Respond(r)

ConcurrentSpec == ConcurrentInit /\ [][ConcurrentNext]_vars

(***************************************************************************)
(* Properties.                                                             *)
(***************************************************************************)
AfterOnRequest(r) == req[r].pc \in {"fairing_done", "guarded", "handled"}
AfterGuard(r) == req[r].pc \in {"guarded", "handled"}

\* The cookie named cookie_name the request arrived with, and what its value
\* decodes to.
Incoming(r) == req[r].original[managed.config.cookie_name]
IncomingDecoded(r) == Base64Decode(Incoming(r).value)
IncomingValid(r) ==
    LET decoded == IncomingDecoded(r)
    IN  /\ Incoming(r).present
        /\ decoded.ok
        /\ Len(decoded.bytes) >= managed.config.cookie_len

\* A pending cookie that is a valid secret cookie under the configuration.
IsSecretCookie(cookie) ==
    LET decoded == Base64Decode(cookie.value)
    IN  /\ cookie.name = managed.config.cookie_name
        /\ decoded.ok
        /\ Len(decoded.bytes) >= managed.config.cookie_len

\* C1: with a CsrfConfig registered, once Fairing::on_request has returned,
\* either the cookie named cookie_name the request arrived with decodes to
\* at least cookie_len bytes, or a new private cookie named cookie_name
\* holding a valid secret has been added to the outgoing cookies.
C1_SecretCookieAfterOnRequest ==
    \A r \in ReqIds :
        (managed.present /\ AfterOnRequest(r)) =>
            \/ IncomingValid(r)
            \/ \E i \in 1 .. Len(req[r].pending) : IsSecretCookie(req[r].pending[i])

\* An undecodable cookie arrived and a secret cookie was added.
C1_Witness ==
    \E r \in ReqIds :
        /\ managed.present /\ AfterOnRequest(r)
        /\ Incoming(r).present /\ ~IncomingDecoded(r).ok
        /\ \E i \in 1 .. Len(req[r].pending) : IsSecretCookie(req[r].pending[i])

\* C2: with a CsrfConfig registered, CsrfToken::from_request succeeds exactly
\* when the private cookie named cookie_name exists, decodes as base64 and
\* decodes to at least cookie_len bytes; in every other case its outcome is
\* Error with status 403, never Forward.
C2_GuardSucceedsIffValid ==
    \A r \in ReqIds :
        (managed.present /\ AfterGuard(r)) =>
            IF IncomingValid(r) THEN req[r].outcome.kind = "Success"
            ELSE req[r].outcome = Error(Forbidden)

\* A cookie that decodes to too few bytes arrived and the guard failed with 403.
C2_Witness ==
    \E r \in ReqIds :
        /\ managed.present /\ AfterGuard(r)
        /\ Incoming(r).present /\ IncomingDecoded(r).ok /\ ~IncomingValid(r)
        /\ req[r].outcome = Error(Forbidden)

\* The handler verified a token that was minted from the string `secret`.
VerifiedTokenOf(r) ==
    /\ req[r].pc = "handled" /\ req[r].route = "create"
    /\ req[r].origin.some

\* C3: a token that authenticity_token minted from a secret verifies against
\* a CsrfToken wrapping that same secret.
C3_MintedTokenVerifies ==
    \A r \in ReqIds :
        (VerifiedTokenOf(r) /\ req[r].origin.raw = req[r].outcome.token)
            => req[r].verified

\* A token delivered to the client in an earlier response, minted from a
\* secret whose encoding is longer than the key bcrypt uses, was verified.
C3_Witness ==
    \E r \in ReqIds :
        /\ VerifiedTokenOf(r) /\ req[r].origin.raw = req[r].outcome.token
        /\ [origin |-> req[r].origin, token |-> req[r].form] \in delivered
        /\ Len(req[r].outcome.token) > BcryptMaxLen
        /\ req[r].verified

\* C4: a token minted from a secret s' never verifies against a CsrfToken
\* wrapping a different secret s, both secrets being valid under the
\* configuration.
C4_OtherSecretNeverVerifies ==
    \A r \in ReqIds :
        (/\ VerifiedTokenOf(r)
         /\ req[r].origin.raw # req[r].outcome.token
         /\ Base64Decode(req[r].origin.raw).ok
         /\ Len(Base64Decode(req[r].origin.raw).bytes) >= managed.config.cookie_len)
            => ~req[r].verified

\* Request r takes its Fairing::on_request step.
OnRequestStep(r) == req[r].pc = "arrived" /\ req'[r].pc = "fairing_done"

\* C5: when the request arrives with a cookie named cookie_name that decodes
\* to at least cookie_len bytes, Fairing::on_request leaves the cookie jar
\* unchanged: no cookie is added, no secret is generated, and the cookie the
\* request arrived with is untouched.
C5_ValidCookieLeftAlone ==
    [][\A r \in ReqIds :
          (managed.present /\ OnRequestStep(r) /\ IncomingValid(r)) =>
              /\ req'[r].pending = req[r].pending
              /\ req'[r].original = req[r].original
              /\ req'[r].generated = req[r].generated
              /\ client' = client]_vars

\* on_request has returned for a request that arrived with a secret longer
\* than cookie_len, and nothing is pending.
C5_Witness ==
    \E r \in ReqIds :
        /\ managed.present /\ req[r].pc = "fairing_done"
        /\ IncomingValid(r)
        /\ Len(IncomingDecoded(r).bytes) > managed.config.cookie_len
        /\ req[r].pending = << >> /\ ~req[r].generated.some

\* C6: for every cookie_len >= 1, when the request arrives without a valid
\* session cookie, the secret Fairing::on_request generates has exactly
\* cookie_len bytes and the value of the cookie it adds decodes, as standard
\* base64, to exactly those bytes.
C6_MintedSecretLength ==
    \A r \in ReqIds :
        (/\ managed.present /\ managed.config.cookie_len >= 1
         /\ AfterOnRequest(r) /\ ~IncomingValid(r)) =>
            /\ req[r].generated.some
            /\ Len(req[r].generated.raw) = managed.config.cookie_len
            /\ Len(req[r].pending) = 1
            /\ LET decoded == Base64Decode(req[r].pending[1].value)
               IN  /\ decoded = [ok |-> TRUE, bytes |-> req[r].generated.raw]
                   /\ Len(decoded.bytes) = managed.config.cookie_len

\* The request arrived without any cookie under a configuration of 64 bytes
\* and the cookie added decodes to 64 bytes.
C6_Witness ==
    \E r \in ReqIds :
        /\ managed.present /\ managed.config.cookie_len = 64
        /\ AfterOnRequest(r) /\ ~Incoming(r).present
        /\ Len(req[r].pending) = 1
        /\ Len(Base64Decode(req[r].pending[1].value).bytes) = 64

\* C7: the length check is a minimum: a stored secret of exactly cookie_len
\* bytes is valid, one of cookie_len - 1 bytes is rejected and makes
\* Fairing::on_request mint a new secret, and one longer than cookie_len is
\* accepted without a new secret being minted.
C7_MinimumLengthCheck ==
    \A r \in ReqIds :
        (managed.present /\ AfterOnRequest(r) /\ Incoming(r).present) =>
            LET decoded == IncomingDecoded(r)
                n == Len(decoded.bytes)
                cookie_len == managed.config.cookie_len
                valid == valid_csrf_token_from_session(req[r].original, managed.config)
            IN  decoded.ok =>
                  /\ n = cookie_len =>
                        valid.some /\ req[r].pending = << >> /\ ~req[r].generated.some
                  /\ n = cookie_len - 1 =>
                        ~valid.some /\ Len(req[r].pending) = 1 /\ req[r].generated.some
                  /\ n > cookie_len =>
                        /\ valid = [some |-> TRUE, raw |-> decoded.bytes]
                        /\ req[r].pending = << >> /\ ~req[r].generated.some

\* A secret one byte shorter than cookie_len arrived and a new one was minted.
C7_Witness ==
    \E r \in ReqIds :
        /\ managed.present /\ AfterOnRequest(r)
        /\ Incoming(r).present /\ IncomingDecoded(r).ok
        /\ Len(IncomingDecoded(r).bytes) = managed.config.cookie_len - 1
        /\ Len(req[r].pending) = 1 /\ req[r].generated.some

\* The cookie named cookie_name arrived but does not decode, or decodes to
\* fewer than cookie_len bytes.
IncomingMalformed(r) ==
    LET decoded == IncomingDecoded(r)
    IN  /\ Incoming(r).present
        /\ ~decoded.ok \/ Len(decoded.bytes) < managed.config.cookie_len

\* The request as it would have arrived without any cookie.
WithoutCookies(rq) == [rq EXCEPT !.original = EmptyStore]

\* Request r takes its CsrfToken::from_request step.
GuardStep(r) == req[r].pc = "fairing_done" /\ req'[r].pc = "guarded"

\* C8: a cookie that fails base64 decoding or decodes to fewer than
\* cookie_len bytes is handled exactly like an absent cookie: the read
\* returns none, Fairing::on_request does to the request what it does to the
\* same request without cookies, minting and adding a fresh secret of
\* cookie_len bytes, and the extractor fails with 403 as it does without
\* cookies; no error is raised for the malformed value.
C8_MalformedLikeAbsent ==
    [][\A r \in ReqIds :
          /\ (managed.present /\ OnRequestStep(r) /\ IncomingMalformed(r)) =>
                /\ ~valid_csrf_token_from_session(req[r].original, managed.config).some
                /\ req'[r].generated.some
                /\ Len(req'[r].generated.raw) = managed.config.cookie_len
                /\ Len(req'[r].pending) = 1
                /\ Base64Decode(req'[r].pending[1].value) =
                       [ok |-> TRUE, bytes |-> req'[r].generated.raw]
                /\ Head(req'[r].log) = "CSRF cookie added successfully."
                /\ WithoutCookies(req'[r]) =
                     [Fairing_on_request(WithoutCookies(req[r]), managed,
                                         req'[r].generated.raw, now)
                        EXCEPT !.pc = "fairing_done"]
          /\ (managed.present /\ GuardStep(r) /\ IncomingMalformed(r)) =>
                /\ req'[r].outcome = Error(Forbidden)
                /\ req'[r].outcome = from_request(WithoutCookies(req[r]), managed)
                /\ req'[r].log = req[r].log]_vars

\* A cookie that is not base64 arrived, a secret was minted and the guard
\* failed with 403.
C8_Witness ==
    \E r \in ReqIds :
        /\ managed.present /\ AfterGuard(r)
        /\ Incoming(r).present /\ ~IncomingDecoded(r).ok
        /\ req[r].generated.some
        /\ req[r].outcome = Error(Forbidden)

\* C9: the expiration of a minted cookie is determined by config.lifespan
\* alone: with lifespan None the cookie has no expiration timestamp, with
\* lifespan Some(d) its expiration is the time of minting plus d.
C9_ExpirationFromLifespan ==
    [][\A r \in ReqIds :
          (OnRequestStep(r) /\ req'[r].pending # req[r].pending) =>
              /\ Len(req'[r].pending) = 1
              /\ req'[r].pending[1].expires =
                   IF managed.config.lifespan.some
                   THEN ExpAt(now + managed.config.lifespan.d)
                   ELSE ExpSession]_vars

\* A cookie minted after the clock has advanced, under a lifespan of d days,
\* expires later than d.
C9_Witness ==
    \E r \in ReqIds :
        /\ managed.present /\ managed.config.lifespan.some
        /\ Len(req[r].pending) = 1
        /\ req[r].pending[1].expires.kind = "datetime"
        /\ req[r].pending[1].expires.at = now + managed.config.lifespan.d
        /\ now > 0

\* C10: every cookie the middleware adds is named config.cookie_name and has
\* path "/"; no cookie is written under any other name, and none is written
\* when no configuration is registered.
C10_CookieNameAndPath ==
    \A r \in ReqIds : \A i \in 1 .. Len(req[r].pending) :
        /\ managed.present
        /\ req[r].pending[i].name = managed.config.cookie_name
        /\ req[r].pending[i].path = "/"

\* A cookie named "foobar" with path "/" was added.
C10_Witness ==
    \E r \in ReqIds :
        /\ managed.present /\ managed.config.cookie_name = "foobar"
        /\ Len(req[r].pending) = 1
        /\ req[r].pending[1].name = "foobar" /\ req[r].pending[1].path = "/"

\* C11: when no CsrfConfig is registered, Fairing::on_request only logs and
\* returns: no cookie is added, no secret is generated, the cookies the
\* request arrived with are untouched, the header step is not run (the one
\* message logged is that of Fairing::on_request, nothing is cached), and
\* the request is not failed: it carries no outcome and goes on.
C11_NoConfigOnlyLogs ==
    [][\A r \in ReqIds :
          (~managed.present /\ OnRequestStep(r)) =>
              /\ req'[r] = [req[r] EXCEPT !.pc = "fairing_done",
                                          !.log = Append(@, ConfigMissing)]
              /\ req'[r].pending = << >> /\ ~req'[r].generated.some
              /\ ~req'[r].cache.present
              /\ req'[r].outcome = NoOutcome
              /\ client' = client]_vars

\* Without a config, on_request has returned for a request that carries an
\* X-CSRF-Token header and no cookie: one message is logged, nothing else.
C11_Witness ==
    \E r \in ReqIds :
        /\ ~managed.present /\ req[r].pc = "fairing_done"
        /\ req[r].header.present /\ ~req[r].original["csrf_token"].present
        /\ req[r].log = << ConfigMissing >>
        /\ req[r].pending = << >>

\* C12: the string wrapped by the CsrfToken the guard returns is the value
\* of the session cookie it was read from (the standard base64 encoding of
\* what the value decodes to is the value), and the authenticity token
\* minted from it verifies against that cookie value under bcrypt::verify.
C12_TokenWrapsCookieValue ==
    \A r \in ReqIds :
        (managed.present /\ AfterGuard(r) /\ req[r].outcome.kind = "Success") =>
            /\ Incoming(r).present
            /\ req[r].outcome.token = Incoming(r).value
            /\ Base64Encode(IncomingDecoded(r).bytes) = Incoming(r).value
            /\ (req[r].pc = "handled" /\ req[r].route = "new" /\ req[r].body.ok) =>
                  bcrypt_verify(Incoming(r).value, req[r].body.value) =
                      [ok |-> TRUE, err |-> "", value |-> TRUE]

\* The guard read a cookie foobar holding 64 bytes and the handler minted a
\* token that verifies against the value of that cookie.
C12_Witness ==
    \E r \in ReqIds :
        /\ managed.present /\ managed.config.cookie_name = "foobar"
        /\ req[r].pc = "handled" /\ req[r].route = "new"
        /\ Len(IncomingDecoded(r).bytes) = 64
        /\ req[r].outcome = Success(Incoming(r).value)
        /\ req[r].body.ok
        /\ bcrypt_verify(Incoming(r).value, req[r].body.value).value

\* The handler of request r has called verify on the submitted token.
VerifyCalled(r) == req[r].pc = "handled" /\ req[r].route = "create"

\* C13: CsrfToken::verify fails closed: for every submitted string on which
\* bcrypt::verify returns an error (a string that is no hash, the empty
\* string, a hash whose cost is not allowed), verify returns
\* Err(VerificationFailure): it is not Ok, nothing is logged as a success
\* and the request goes on with the outcome it had; the header step, which
\* calls verify too, caches no CsrfToken for such a header.
C13_VerifyFailsClosed ==
    \A r \in ReqIds :
        /\ (VerifyCalled(r) /\ ~bcrypt_verify(req[r].outcome.token, req[r].form).ok) =>
              /\ ~req[r].verified
              /\ CsrfToken_verify(req[r].outcome.token, req[r].form) =
                     [ok |-> FALSE, log |-> << >>]
              /\ \A i \in 1 .. Len(req[r].log) :
                     req[r].log[i] # "CSRF token verification succeeded."
              /\ req[r].outcome.kind = "Success"
        /\ (/\ managed.present /\ AfterOnRequest(r)
            /\ req[r].generated.some /\ req[r].header.present
            /\ ~bcrypt_verify(<< >>, req[r].header.value).ok) =>
              /\ ~req[r].cache.present
              /\ req[r].log[Len(req[r].log)] = "CSRF token verification failed!"

\* verify was called with a string that has the form of a hash but a cost
\* bcrypt rejects: the primitive returned an error and verify failed.
C13_Witness ==
    \E r \in ReqIds :
        /\ VerifyCalled(r)
        /\ req[r].form.wf /\ req[r].form.cost < BcryptMinCost
        /\ bcrypt_verify(req[r].outcome.token, req[r].form).err = "CostNotAllowed"
        /\ ~req[r].verified

\* The request as Fairing::on_request hands it to the header step
\* (lib.rs:379), the secret it generated being `values`.
BeforeHeaderStep(rq, values) ==
    [rq EXCEPT !.pending = add_private(@, SecretCookie(managed.config, Base64Encode(values),
                                                       now), now),
               !.generated = [some |-> TRUE, raw |-> values],
               !.log = Append(@, "CSRF cookie added successfully.")]

\* What the header step may do to a request: append to the log, and cache
\* the CsrfToken of the header when the header is present and verifies.
OnlyLogsAndCaches(self, before, after) ==
    /\ after = [before EXCEPT !.log = after.log, !.cache = after.cache]
    /\ after.outcome = before.outcome /\ after.pending = before.pending
    /\ after.original = before.original
    /\ after.cache # before.cache =>
          /\ before.header.present
          /\ unwrap_or(bcrypt_verify(self, before.header.value), FALSE)
          /\ after.cache = Header(before.header.value)

\* C14: the header step (CsrfToken's on_request) is non-enforcing: whether
\* the X-CSRF-Token header is missing, fails verification, or the config is
\* missing, the step does not reject the request, sets no status and leaves
\* the cookie jar as it got it; all it may change, besides the log, is the
\* request-local cache, where it stores a CsrfToken when verification
\* succeeds.
C14_HeaderStepNonEnforcing ==
    [][\A r \in ReqIds :
          /\ (managed.present /\ OnRequestStep(r) /\ req'[r].generated.some) =>
                LET before == BeforeHeaderStep(req[r], req'[r].generated.raw)
                    after == [req'[r] EXCEPT !.pc = req[r].pc]
                IN  /\ OnlyLogsAndCaches(<< >>, before, after)
                    /\ after.outcome = NoOutcome
                    /\ client' = client
          /\ OnRequestStep(r) =>
                \A mgd \in {NoConfig, managed} :
                    OnlyLogsAndCaches(<< >>, req[r],
                                      CsrfToken_on_request(<< >>, req[r], mgd))]_vars

\* The header step has run on a header that does not verify: the failure is
\* logged, the minted cookie is pending and the request has no outcome.
C14_Witness ==
    \E r \in ReqIds :
        /\ managed.present /\ req[r].pc = "fairing_done"
        /\ req[r].generated.some /\ req[r].header.present
        /\ ~req[r].cache.present
        /\ req[r].log = << "CSRF cookie added successfully.",
                           "CSRF token verification failed!" >>
        /\ Len(req[r].pending) = 1 /\ req[r].outcome = NoOutcome

\* The calls of `method` among the builder calls made so far.
CallsOf(method) ==
    { i \in 1 .. Len(builder.history) : builder.history[i].method = method }

LastCallOf(method) ==
    builder.history[CHOOSE i \in CallsOf(method) : \A j \in CallsOf(method) : j <= i]

\* C15: CsrfConfig::default() is lifespan = 1 day, cookie_name =
\* "csrf_token", cookie_len = 32; each builder call sets its own field to
\* its argument and leaves the other two fields as they were; so after any
\* sequence of builder calls each field is the argument of the last call
\* for that field, or the default if there was none.
C15_DefaultAndBuilders ==
    [][phase = "build" =>
          /\ CsrfConfig_default.lifespan = Some(1)
          /\ CsrfConfig_default.cookie_name = "csrf_token"
          /\ CsrfConfig_default.cookie_len = 32
          /\ builder.history = << >> => builder.config = CsrfConfig_default
          /\ builder.config.lifespan =
                IF CallsOf("with_lifetime") = {} THEN Some(1)
                ELSE LastCallOf("with_lifetime").time
          /\ builder.config.cookie_name =
                IF CallsOf("with_cookie_name") = {} THEN "csrf_token"
                ELSE LastCallOf("with_cookie_name").name
          /\ builder.config.cookie_len =
                IF CallsOf("with_cookie_len") = {} THEN 32
                ELSE LastCallOf("with_cookie_len").length
          /\ phase' = "build" =>
                LET call == builder'.history[Len(builder'.history)]
                    old == builder.config
                    new == builder'.config
                IN  /\ call.method = "with_lifetime" =>
                          /\ new.lifespan = call.time
                          /\ new.cookie_name = old.cookie_name
                          /\ new.cookie_len = old.cookie_len
                    /\ call.method = "with_cookie_name" =>
                          /\ new.cookie_name = call.name
                          /\ new.lifespan = old.lifespan
                          /\ new.cookie_len = old.cookie_len
                    /\ call.method = "with_cookie_len" =>
                          /\ new.cookie_len = call.length
                          /\ new.lifespan = old.lifespan
                          /\ new.cookie_name = old.cookie_name
          /\ phase' = "running" /\ managed'.present => managed'.config = builder.config]_vars

\* Three builder calls were made, the last one with_cookie_len(64) after
\* another name and another lifespan were set: only cookie_len changed.
C15_Witness ==
    /\ phase = "build" /\ Len(builder.history) = 3
    /\ builder.history[3].method = "with_cookie_len"
    /\ builder.config = [lifespan |-> None, cookie_name |-> "foobar", cookie_len |-> 64]

\* What a request shows of the core: the messages logged, the status of the
\* error outcome of the guard, and the error verify returned to the handler.
Shown(log, outcome, verifyCalled, verifyOk) ==
    [log |-> log,
     status |-> IF outcome.kind \in {"Error", "Forward", "Panic"} THEN outcome.status ELSE 0,
     failure |-> IF verifyCalled /\ ~verifyOk THEN VerificationFailure ELSE NoFailure]

ShownBy(r) == Shown(req[r].log, req[r].outcome, VerifyCalled(r), req[r].verified)

\* The session secrets request r could have had in place of its own: those
\* of the same length, generated or carried by the cookie as its own was.
OtherSecrets(r) ==
    IF req[r].generated.some THEN GenerateValues(managed.config)
    ELSE RandomBytes(Len(IncomingDecoded(r).bytes))

\* What request r shows when it is run again, up to where it is, with
\* `secret` as its session secret and everything else as it was.
ShownWithSecret(r, secret) ==
    LET name == managed.config.cookie_name
        arrived == [IdleRequest EXCEPT
                       !.pc = "arrived",
                       !.header = req[r].header,
                       !.original = IF req[r].generated.some THEN req[r].original
                                    ELSE [req[r].original EXCEPT
                                             ![name].value = Base64Encode(secret) \o << >>]]
        after == Fairing_on_request(arrived, managed, secret, now)
        outcome == IF AfterGuard(r) THEN from_request(after, managed) ELSE NoOutcome
        v == IF VerifyCalled(r) THEN CsrfToken_verify(outcome.token, req[r].form)
             ELSE [ok |-> TRUE, log |-> << >>]
    IN  Shown(after.log \o v.log, outcome, VerifyCalled(r), v.ok)

\* The texts the core logs.
LogTexts ==
    { ConfigMissing, "CSRF cookie added successfully.", "Request lacks X-CSRF-Token",
      "CSRF token verification failed!", "CsrfToken is successfully created",
      "CSRF token verification succeeded." }

\* C16, as the claim states it: no log message and no response depends on
\* the session secret: run with another secret of the same length and the
\* same validity, and everything else the same, a request logs the same
\* messages and gives the same error responses.
C16_NothingDependsOnSecret ==
    \A r \in ReqIds :
        (managed.present /\ AfterOnRequest(r)) =>
            \A secret \in OtherSecrets(r) : ShownWithSecret(r, secret) = ShownBy(r)

\* C16, amended: the messages logged and the error responses depend on the
\* session secret only through the result of verifying the submitted token
\* against it: every message is one of the fixed texts of the core, and run
\* with another secret of the same length and the same validity against
\* which the submitted token verifies as it does against its own, a request
\* logs the same messages and gives the same error responses.
C16_OnlyVerifyResultDependsOnSecret ==
    \A r \in ReqIds :
        (managed.present /\ AfterOnRequest(r)) =>
            /\ \A i \in 1 .. Len(req[r].log) : req[r].log[i] \in LogTexts
            /\ \A secret \in OtherSecrets(r) :
                  (VerifyCalled(r) =>
                      CsrfToken_verify(Base64Encode(secret), req[r].form).ok = req[r].verified)
                  => ShownWithSecret(r, secret) = ShownBy(r)

\* verify failed on a token minted from another secret, and there is a
\* third secret with which the request shows the same; and a request that
\* minted its secret shows the same with another secret generated.
C16_Witness ==
    \E r \in ReqIds :
        /\ managed.present /\ VerifyCalled(r) /\ ~req[r].verified
        /\ req[r].form.wf /\ req[r].origin.some
        /\ \E secret \in OtherSecrets(r) :
              /\ Base64Encode(secret) # req[r].outcome.token
              /\ Base64Encode(secret) # req[r].origin.raw
              /\ ShownWithSecret(r, secret) = ShownBy(r)
              /\ ShownBy(r).failure = VerificationFailure

\* The handler `new` of request r calls authenticity_token.
NewStep(r) ==
    req[r].pc = "guarded" /\ req'[r].pc = "handled" /\ req'[r].route = "new"

\* C17: CsrfToken::authenticity_token calls bcrypt::hash once, with the
\* fixed cost 8, and returns its result as it is: Ok with the hash string,
\* which carries cost 8 and the digest of the wrapped string, or the error
\* of the primitive, without another attempt; the token, the cookies of the
\* request and the session of the client are left as they were.
C17_AuthenticityTokenIsHash ==
    [][\A r \in ReqIds :
          NewStep(r) =>
              LET token == req[r].outcome.token
                  result == req'[r].body
              IN  /\ \E salt \in Salts \cup {RandFailure} :
                        /\ result = bcrypt_hash(token, 8, salt)
                        /\ salt = RandFailure =>
                              result = [ok |-> FALSE, err |-> "Rand",
                                        value |-> MalformedHash(<< >>)]
                        /\ salt # RandFailure =>
                              /\ result.ok /\ result.value.wf
                              /\ result.value.cost = 8 /\ result.value.salt = salt
                              /\ result.value.digest = hash_password(token, 8, salt).digest
                  /\ BCRYPT_COST = 8
                  /\ req'[r] = [req[r] EXCEPT !.body = result, !.route = "new",
                                              !.pc = "handled"]
                  /\ client' = client /\ delivered' = delivered]_vars

\* authenticity_token returned the error of the primitive: no token is in
\* the result, the CsrfToken and the cookies are as they were.
C17_Witness ==
    \E r \in ReqIds :
        /\ req[r].pc = "handled" /\ req[r].route = "new"
        /\ ~req[r].body.ok /\ req[r].body.err = "Rand"
        /\ req[r].outcome.kind = "Success" /\ req[r].pending = << >>

\* The secret cookie the client holds, and whether it is a secret the
\* middleware accepts that has not expired.
Held == client[managed.config.cookie_name]

HoldsValidSecret ==
    LET decoded == Base64Decode(Held.value)
    IN  /\ managed.present /\ Held.present /\ ~Expired(Held, now)
        /\ decoded.ok /\ Len(decoded.bytes) >= managed.config.cookie_len

\* Request r arrives.
ArriveStep(r) == req[r].pc = "idle" /\ req'[r].pc = "arrived"

\* C18: a session's secret is created once and never mutated: while the
\* client holds a valid secret cookie that has not expired, and returns it
\* with its requests, every request arrives with that secret, no request
\* mints a secret or adds a cookie, the guard wraps that same value, and the
\* cookie the client holds keeps its value and its expiration; so only a
\* request that arrives without a valid secret mints one.
C18_SecretCreatedOnce ==
    [][HoldsValidSecret =>
          /\ client' = client
          /\ \A r \in ReqIds :
                /\ (r > 1 /\ ArriveStep(r)) =>
                      /\ req'[r].original[managed.config.cookie_name].present
                      /\ req'[r].original[managed.config.cookie_name].value = Held.value
                /\ OnRequestStep(r) =>
                      /\ req[r].original[managed.config.cookie_name].value = Held.value
                      /\ ~req'[r].generated.some
                      /\ req'[r].pending = << >>
                /\ GuardStep(r) => req'[r].outcome = Success(Held.value)
                /\ req[r].pending = << >> /\ ~req[r].generated.some]_vars

\* The second request of a client whose first request minted the secret:
\* it arrived with the cookie of the first response, nothing was minted and
\* the guard wrapped the value of that cookie.
C18_Witness ==
    /\ HoldsValidSecret /\ Held.expires.kind = "datetime"
    /\ req[1].pc = "responded"
    /\ req[2].pc = "guarded" /\ req[2].outcome = Success(Held.value)
    /\ req[2].pending = << >> /\ ~req[2].generated.some

\* The tokens that were delivered to the client, minted from the string s.
DeliveredFrom(s) == { d \in delivered : d.origin.raw = s }

\* C19: verification is against the current session secret, not against a
\* particular token: on every request whose guard wraps the secret s, every
\* token minted from s on an earlier request verifies, together with the
\* token the request mints itself; the tokens handed out stay handed out
\* and valid whatever is minted or verified later.
C19_EveryTokenOfSecretVerifies ==
    [][/\ \A r \in ReqIds :
            (AfterGuard(r) /\ req[r].outcome.kind = "Success") =>
                LET s == req[r].outcome.token
                IN  /\ \A d \in DeliveredFrom(s) : CsrfToken_verify(s, d.token).ok
                    /\ (req[r].route = "new" /\ req[r].body.ok) =>
                          CsrfToken_verify(s, req[r].body.value).ok
                    /\ (/\ VerifyCalled(r)
                        /\ [origin |-> req[r].origin, token |-> req[r].form]
                               \in DeliveredFrom(s)) => req[r].verified
       /\ delivered \subseteq delivered']_vars

\* A later request under the same secret mints a second token, different
\* from the one delivered earlier: both verify against the secret.
C19_Witness ==
    \E r \in ReqIds :
        /\ req[r].pc = "handled" /\ req[r].route = "new" /\ req[r].body.ok
        /\ \E d \in DeliveredFrom(req[r].outcome.token) :
              /\ d.token # req[r].body.value
              /\ CsrfToken_verify(req[r].outcome.token, d.token).ok
              /\ CsrfToken_verify(req[r].outcome.token, req[r].body.value).ok

\* C20: when a request arrives without a valid session cookie and the
\* config is registered, the guard evaluated for that same request, after
\* Fairing::on_request has minted the secret, succeeds and wraps the value
\* of the cookie just written, instead of failing with 403.
C20_GuardGetsMintedSecret ==
    \A r \in ReqIds :
        (managed.present /\ AfterGuard(r) /\ req[r].generated.some) =>
            /\ Len(req[r].pending) = 1
            /\ req[r].outcome = Success(req[r].pending[1].value)

\* C21: the guard is total: for every request, also one handled while no
\* CsrfConfig is registered, CsrfToken::from_request returns Success with a
\* token or Error with status 403; it never panics and never forwards.
C21_GuardIsTotal ==
    \A r \in ReqIds :
        AfterGuard(r) =>
            \/ req[r].outcome.kind = "Success"
            \/ req[r].outcome = Error(Forbidden)

\* The header step has run on request r: it logs one message in each of
\* its branches.
HeaderStepRan(r) ==
    \E i \in 1 .. Len(req[r].log) :
        req[r].log[i] \in
            IF req[r].header.present
            THEN {"CsrfToken is successfully created", "CSRF token verification failed!"}
            ELSE {"Request lacks X-CSRF-Token"}

\* C22: the header step runs on every request handled with a CsrfConfig
\* registered: the X-CSRF-Token header is inspected on the requests for
\* which Fairing::on_request mints a secret and on the requests that carry
\* a valid session secret alike.
C22_HeaderStepOnEveryRequest ==
    \A r \in ReqIds :
        (managed.present /\ AfterOnRequest(r)) => HeaderStepRan(r)

\* The secret of the session of request r: the one it minted, or the value
\* of the cookie it arrived with.
SessionSecret(r) ==
    IF req[r].generated.some THEN Base64Encode(req[r].generated.raw)
    ELSE Incoming(r).value

\* C23: when the header step has run with a header present, a CsrfToken is
\* in the request-local cache only if the header verifies against the
\* secret of the session; a header that does not match the session secret
\* never results in a cached token.
C23_CachedOnlyIfHeaderMatchesSecret ==
    \A r \in ReqIds :
        (managed.present /\ AfterOnRequest(r) /\ req[r].cache.present) =>
            /\ req[r].header.present
            /\ unwrap_or(bcrypt_verify(SessionSecret(r), req[r].header.value), FALSE)

\* The request as it arrived, before any hook has run on it.
AsArrived(rq) ==
    [IdleRequest EXCEPT !.pc = "arrived", !.original = rq.original, !.header = rq.header]

\* C24: requests handled at the same time do not interfere: under every
\* interleaving of the steps of the requests in flight, what
\* Fairing::on_request does to a request (whether it mints, the cookie it
\* adds to the jar of the request) and the outcome of the guard are what
\* they are for that request handled alone, a function of what the request
\* arrived with and of the CsrfConfig; a step of one request changes no
\* other request, and the CsrfConfig is not written after ignite.
C24_RequestsDoNotInterfere ==
    [][/\ \A r \in ConcurrentIds :
            /\ OnRequestStep(r) =>
                  \E values \in GenerateValues(managed.config) :
                      req'[r] = [Fairing_on_request(AsArrived(req[r]), managed, values, now)
                                    EXCEPT !.pc = "fairing_done"]
            /\ GuardStep(r) =>
                  req'[r] = [req[r] EXCEPT
                                !.outcome = from_request(AsArrived(req[r]), managed),
                                !.pc = "guarded"]
            /\ req'[r] # req[r] =>
                  \A q \in ConcurrentIds \ {r} : req'[q] = req[q]
            /\ (r \in InFlight /\ req'[r].pc # "responded") =>
                  /\ req'[r].original = req[r].original
                  /\ req'[r].header = req[r].header
       /\ managed' = managed]_vars

\* Two requests of the client are in flight, each has minted a secret of
\* its own and the guard of each has failed with 403.
C24_Witness ==
    /\ req[1].pc = "guarded" /\ req[2].pc = "guarded"
    /\ req[1].generated.some /\ req[2].generated.some
    /\ req[1].generated.raw # req[2].generated.raw
    /\ req[1].outcome = Error(Forbidden) /\ req[2].outcome = Error(Forbidden)


\* C25: every authenticity token delivered to the client verifies against
\* the session secret that the client holds afterwards and presents on its
\* next request, also when the client has issued several requests at once
\* before it held any session cookie: the client never holds a secret
\* different from the one a delivered token was minted from.
C25_DeliveredTokenVerifiesNext ==
    \A d \in delivered :
        /\ Held.present
        /\ Held.value = d.origin.raw
        /\ CsrfToken_verify(Held.value, d.token).ok

====
